---- MODULE Spec2Model ----
(***************************************************************************)
(* The interactive Treasury Rate Finder (src/src/main.py) as a state       *)
(* machine: the main menu, prompt_for_dates, prompt_for_security, the      *)
(* per-date fetch loop of run_interactive_cli and its report.  Strings are *)
(* TLA+ strings; their order is Python's (lexicographic by code point).    *)
(***************************************************************************)
EXTENDS Integers, Sequences, FiniteSets, TLC

(* ------------------------------------------------------------------ *)
(* Bounds of the model                                                  *)
(* ------------------------------------------------------------------ *)

\* Longest record list one Rate Client call returns in the model.
MaxRecs == 2

\* The fetch loop is explored only for requests of at most this many dates.
MaxFetch == 5

(* ------------------------------------------------------------------ *)
(* Python strings: comparison, int(), str.lower(), formatting           *)
(* ------------------------------------------------------------------ *)

\* The printable ASCII characters in code point order: 32 (space) to 95, and
\* 97 to 126 (a string of the language cannot hold the grave accent, 96).
AsciiLo == " !\"#$%&'()*+,-./0123456789:;<=>?@ABCDEFGHIJKLMNOPQRSTUVWXYZ[\\]^_"
AsciiHi == "abcdefghijklmnopqrstuvwxyz{|}~"

CharAt(s, k) == SubSeq(s, k, k)

Chars == {CharAt(AsciiLo, k) : k \in 1..Len(AsciiLo)} \cup {CharAt(AsciiHi, k) : k \in 1..Len(AsciiHi)}

\* ord(c) for a printable ASCII character.
Ord ==
    [c \in Chars |->
        IF \E k \in 1..Len(AsciiLo) : CharAt(AsciiLo, k) = c
        THEN 31 + (CHOOSE k \in 1..Len(AsciiLo) : CharAt(AsciiLo, k) = c)
        ELSE 96 + (CHOOSE k \in 1..Len(AsciiHi) : CharAt(AsciiHi, k) = c)]

\* Python's a < b on str: the first differing character decides, a proper
\* prefix is smaller.
RECURSIVE StrLess(_, _)
StrLess(a, b) ==
    IF b = "" THEN FALSE
    ELSE IF a = "" THEN TRUE
    ELSE IF Head(a) = Head(b) THEN StrLess(Tail(a), Tail(b))
    ELSE Ord[Head(a)] < Ord[Head(b)]

StrLeq(a, b) == a = b \/ StrLess(a, b)

DigitChars == "0123456789"

IsDigit(c) == \E k \in 1..10 : CharAt(DigitChars, k) = c

DigitVal(c) == Ord[c] - 48

RECURSIVE Strip(_)
\* str.strip() for blanks (int() ignores surrounding whitespace).
Strip(s) ==
    IF s = "" THEN s
    ELSE IF Head(s) = " " THEN Strip(Tail(s))
    ELSE IF CharAt(s, Len(s)) = " " THEN Strip(SubSeq(s, 1, Len(s) - 1))
    ELSE s

\* The text after an optional sign.
Unsigned(s) == IF s # "" /\ Head(s) \in {"+", "-"} THEN Tail(s) ELSE s

\* int(s) succeeds: optional blanks, optional sign, one or more digits.
\* (Underscore digit separators and non-ASCII digits are outside the inputs.)
IsInt(s) ==
    LET u == Unsigned(Strip(s))
    IN  u # "" /\ \A k \in 1..Len(u) : IsDigit(CharAt(u, k))

RECURSIVE DigitsVal(_, _)
DigitsVal(u, acc) ==
    IF u = "" THEN acc ELSE DigitsVal(Tail(u), 10 * acc + DigitVal(Head(u)))

\* int(s) where IsInt(s).
IntVal(s) ==
    LET t == Strip(s)
        v == DigitsVal(Unsigned(t), 0)
    IN  IF Head(t) = "-" THEN 0 - v ELSE v

RECURSIVE NatToStr(_)
NatToStr(n) ==
    IF n < 10 THEN CharAt(DigitChars, n + 1)
    ELSE NatToStr(n \div 10) \o CharAt(DigitChars, (n % 10) + 1)

\* f"{n}" for an int.
IntToStr(n) == IF n < 0 THEN "-" \o NatToStr(0 - n) ELSE NatToStr(n)

\* f"{n:02d}": zero-padded to a minimum width of two (the sign counts).
Fmt02d(n) ==
    IF n < 0 THEN (IF n > -10 THEN "-" \o NatToStr(0 - n) ELSE IntToStr(n))
    ELSE IF n < 10 THEN "0" \o NatToStr(n)
    ELSE NatToStr(n)

UpperChars == "ABCDEFGHIJKLMNOPQRSTUVWXYZ"
LowerChars == "abcdefghijklmnopqrstuvwxyz"

LowerChar(c) ==
    IF \E k \in 1..26 : CharAt(UpperChars, k) = c
    THEN CharAt(LowerChars, CHOOSE k \in 1..26 : CharAt(UpperChars, k) = c)
    ELSE c

RECURSIVE Lower(_)
\* str.lower() on ASCII text.
Lower(s) == IF s = "" THEN s ELSE LowerChar(Head(s)) \o Lower(Tail(s))

(* ------------------------------------------------------------------ *)
(* calendar and get_last_day_of_month                                   *)
(* ------------------------------------------------------------------ *)

\* calendar.isleap
isleap(year) == year % 4 = 0 /\ (year % 100 # 0 \/ year % 400 = 0)

\* calendar.mdays[1..12]
mdays == <<31, 28, 31, 30, 31, 30, 31, 31, 30, 31, 30, 31>>

\* calendar.monthrange(year, month)[1], for 1 <= month <= 12.
monthrange_days(year, month) ==
    mdays[month] + (IF month = 2 /\ isleap(year) THEN 1 ELSE 0)

get_last_day_of_month(year, month) ==
    IntToStr(year) \o "-" \o Fmt02d(month) \o "-" \o Fmt02d(monthrange_days(year, month))

(* ------------------------------------------------------------------ *)
(* The security catalog                                                 *)
(* ------------------------------------------------------------------ *)

\* list(SECURITY_MAP.keys()): dict order is insertion order.
type_keys == <<"Marketable", "Non-marketable", "Interest-bearing Debt">>

SECURITY_MAP ==
    [k \in {"Marketable", "Non-marketable", "Interest-bearing Debt"} |->
        CASE k = "Marketable" ->
               <<"Treasury Bills", "Treasury Notes", "Treasury Bonds",
                 "Treasury Inflation-Protected Securities (TIPS)",
                 "Treasury Floating Rate Notes (FRN)", "Federal Financing Bank",
                 "Total Marketable">>
          [] k = "Non-marketable" ->
               <<"Domestic Series", "Foreign Series",
                 "State and Local Government Series",
                 "United States Savings Securities",
                 "United States Savings Inflation Securities",
                 "Government Account Series",
                 "Government Account Series Inflation Securities",
                 "Total Non-marketable", "Special Purpose Vehicle">>
          [] k = "Interest-bearing Debt" ->
               <<"Total Interest-bearing Debt">>]

(* ------------------------------------------------------------------ *)
(* State                                                                *)
(* ------------------------------------------------------------------ *)

VARIABLES
    pc,                 \* the input() or API call the program is blocked at
    msg,                \* what the last step printed to standard output
    date_choice,        \* prompt_for_dates: choice
    dates,              \* prompt_for_dates: dates (mode 1, being entered)
    rng,                \* prompt_for_dates: the range endpoints parsed so far
    dates_to_query,     \* run_interactive_cli: dates_to_query
    selected_type,      \* prompt_for_security: selected_type
    securities_to_find, \* run_interactive_cli: securities_to_find
    i,                  \* dates of dates_to_query the for loop is done with
    all_results,        \* run_interactive_cli: all_results
    fetch_errors,       \* run_interactive_cli: fetch_errors
    calls,              \* the Rate Client calls made, with what each gave
    stderr,             \* lines written to standard error for this request
    table               \* the rows handed to tabulate

vars == <<pc, msg, date_choice, dates, rng, dates_to_query, selected_type,
          securities_to_find, i, all_results, fetch_errors, calls, stderr, table>>

\* The state at the main menu: nothing of a request is held.
AtMenu ==
    /\ pc = "menu"
    /\ date_choice = ""
    /\ dates = <<>>
    /\ rng = <<>>
    /\ dates_to_query = <<>>
    /\ selected_type = ""
    /\ securities_to_find = <<>>
    /\ i = 0
    /\ all_results = <<>>
    /\ fetch_errors = FALSE
    /\ calls = <<>>
    /\ stderr = <<>>
    /\ table = <<>>

Init == AtMenu /\ msg = ""

(* ------------------------------------------------------------------ *)
(* run_interactive_cli: the main menu                                   *)
(* ------------------------------------------------------------------ *)

MenuTokens == {"1", "2", "x"}

MainMenu ==
    /\ pc = "menu"
    /\ \E choice \in MenuTokens :
         /\ pc' = (IF choice = "1" THEN "date_menu"
                   ELSE IF choice = "2" THEN "exit" ELSE "continue")
         /\ msg' = (IF choice = "1" THEN "--- Date Selection ---"
                    ELSE IF choice = "2"
                    THEN "Thank you for using the Treasury Rate Finder. Goodbye!"
                    ELSE "Invalid choice. Please enter 1 or 2.")
    /\ UNCHANGED <<date_choice, dates, rng, dates_to_query, selected_type,
                   securities_to_find, i, all_results, fetch_errors, calls,
                   stderr, table>>

\* input("Press Enter ...") at the end of a round of the main loop: back to
\* the menu.  Every local of the round is assigned again before it is read,
\* so the round's values are dropped here.
PressEnter ==
    /\ pc \in {"continue", "no_dates", "done"}
    /\ pc' = "menu"
    /\ msg' = ""
    /\ date_choice' = ""
    /\ dates' = <<>>
    /\ rng' = <<>>
    /\ dates_to_query' = <<>>
    /\ selected_type' = ""
    /\ securities_to_find' = <<>>
    /\ i' = 0
    /\ all_results' = <<>>
    /\ fetch_errors' = FALSE
    /\ calls' = <<>>
    /\ stderr' = <<>>
    /\ table' = <<>>

(* ------------------------------------------------------------------ *)
(* prompt_for_dates                                                     *)
(* ------------------------------------------------------------------ *)

DateMenuTokens == {"1", "2", "3"}

DateMenu ==
    /\ pc = "date_menu"
    /\ \E choice \in DateMenuTokens :
         /\ date_choice' = choice
         /\ pc' = (IF choice = "1" THEN "specific"
                   ELSE IF choice = "2" THEN "range" ELSE "date_menu")
         /\ msg' = (IF choice \in {"1", "2"} THEN ""
                    ELSE "Invalid choice. Please enter 1 or 2.")
    /\ dates' = <<>>
    /\ rng' = <<>>
    /\ UNCHANGED <<dates_to_query, selected_type, securities_to_find, i,
                   all_results, fetch_errors, calls, stderr, table>>

\* min() of a non-empty set of strings.
MinStr(S) == CHOOSE a \in S : \A b \in S : StrLeq(a, b)

RECURSIVE SortedSet(_)
\* sorted(list(S)) for a set of strings.
SortedSet(S) ==
    IF S = {} THEN <<>>
    ELSE LET a == MinStr(S) IN <<a>> \o SortedSet(S \ {a})

Range(seq) == {seq[k] : k \in DOMAIN seq}

\* Mutant of UniqueSorted: the list returned as entered.
UniqueSortedAsEntered(ds) == ds

\* sorted(list(set(dates)))
UniqueSorted(ds) == SortedSet(Range(ds))

\* The while condition of the specific-dates loop.
MoreSpecificDates(ds) == Len(ds) < 5

\* The validation of one year/month entry of mode 1: the message printed, or
\* "" when the entry is accepted.
SpecificError(year, month, ds) ==
    IF ~(2020 <= year /\ year <= 2025)
    THEN "Invalid input. Year must be between 2020 and 2025."
    ELSE IF year = 2020 /\ month < 10
    THEN "Invalid input. For 2020, earliest month is 10."
    ELSE IF year = 2025 /\ month > 9
    THEN "Invalid input. For 2025, latest month is 9."
    ELSE IF ~(1 <= month /\ month <= 12)
    THEN "Invalid input. Month must be between 01 and 12."
    ELSE IF ds # <<>> /\ StrLess(get_last_day_of_month(year, month), ds[Len(ds)])
    THEN "Error: Dates must be in chronological order."
    ELSE ""

\* prompt_for_dates returns ds to run_interactive_cli, which goes back to the
\* menu on an empty list and on to the security prompts otherwise.  The
\* local list of the prompt goes out of scope.
ReturnDates(ds) ==
    /\ dates_to_query' = ds
    /\ dates' = <<>>
    /\ pc' = (IF dates_to_query' = <<>> THEN "no_dates" ELSE "sec_type")
    /\ msg' = (IF dates_to_query' = <<>>
               THEN "No dates selected. Returning to main menu..."
               ELSE "--- Security Selection ---")

\* One round of the mode 1 loop: a year, then a month.
SpecificEntry(Years, Months) ==
    /\ pc = "specific"
    /\ \E year_str \in Years, month_str \in Months :
         IF year_str = ""
         THEN ReturnDates(UniqueSorted(dates))
         ELSE IF ~IsInt(year_str) \/ ~IsInt(month_str)
         THEN /\ msg' = "Invalid input. Please enter numbers for year/month."
              /\ UNCHANGED <<pc, dates, dates_to_query>>
         ELSE LET year == IntVal(year_str)
                  month == IntVal(month_str)
                  err == SpecificError(year, month, dates)
                  ds == Append(dates, get_last_day_of_month(year, month))
              IN  IF err # ""
                  THEN /\ msg' = err
                       /\ UNCHANGED <<pc, dates, dates_to_query>>
                  ELSE IF MoreSpecificDates(ds)
                  THEN /\ dates' = ds
                       /\ msg' = ""
                       /\ UNCHANGED <<pc, dates_to_query>>
                  ELSE ReturnDates(UniqueSorted(ds))
    /\ UNCHANGED <<date_choice, rng, selected_type, securities_to_find, i,
                   all_results, fetch_errors, calls, stderr, table>>

\* valid_start, valid_end
valid_year_month(year, month) ==
    2020 <= year /\ year <= 2025 /\ 1 <= month /\ month <= 12

\* Mutant of EndBeforeStart: the years alone are compared.
EndBeforeStartYears(start_year, start_month, end_year, end_month) ==
    end_year < start_year

\* (end_year, end_month) < (start_year, start_month), on tuples.
EndBeforeStart(start_year, start_month, end_year, end_month) ==
    end_year < start_year \/ (end_year = start_year /\ end_month < start_month)

StartOutOfRange(start_year, start_month) ==
    (start_year = 2020 /\ start_month < 10) \/ start_year < 2020

EndOutOfRange(end_year, end_month) ==
    (end_year = 2025 /\ end_month > 9) \/ end_year > 2025

\* The validation of one range entry: the message printed, or "" when the
\* range is accepted.
RangeError(start_year, start_month, end_year, end_month) ==
    IF ~(valid_year_month(start_year, start_month) /\ valid_year_month(end_year, end_month))
    THEN "Invalid input. Ensure years 2020-2025, months 01-12."
    ELSE IF EndBeforeStart(start_year, start_month, end_year, end_month)
    THEN "Error: End date cannot be before start date."
    ELSE IF StartOutOfRange(start_year, start_month)
    THEN "Error: Start date out of allowed range (min 2020-10)."
    ELSE IF EndOutOfRange(end_year, end_month)
    THEN "Error: End date out of allowed range (max 2025-09)."
    ELSE ""

\* Mutant of s_month: the start month in every year.
s_monthEveryYear(year, start_year, start_month) == start_month

\* s_month and e_month of the year loop.
s_month(year, start_year, start_month) == IF year = start_year THEN start_month ELSE 1
e_month(year, end_year, end_month) == IF year = end_year THEN end_month ELSE 12

RECURSIVE MonthLoop(_, _, _)
\* for month in range(month, last + 1), with the hard limits skipped.
MonthLoop(year, month, last) ==
    IF month > last THEN <<>>
    ELSE (IF (year = 2020 /\ month < 10) \/ (year = 2025 /\ month > 9)
          THEN <<>>
          ELSE <<get_last_day_of_month(year, month)>>)
         \o MonthLoop(year, month + 1, last)

RECURSIVE YearLoop(_, _, _, _, _, _)
\* for year in range(year, end_year + 1)
YearLoop(year, start_year, start_month, end_year, end_month, acc) ==
    IF year > end_year THEN acc
    ELSE YearLoop(year + 1, start_year, start_month, end_year, end_month,
                  acc \o MonthLoop(year, s_month(year, start_year, start_month),
                                   e_month(year, end_year, end_month)))

\* The dates of an accepted range.
RangeDates(start_year, start_month, end_year, end_month) ==
    YearLoop(start_year, start_year, start_month, end_year, end_month, <<>>)

\* The ints read before the first input that int() rejects.
RECURSIVE ParsedPrefix(_)
ParsedPrefix(strs) ==
    IF strs = <<>> \/ ~IsInt(Head(strs)) THEN <<>>
    ELSE <<IntVal(Head(strs))>> \o ParsedPrefix(Tail(strs))

\* One round of the range loop: start year, start month, end year, end month.
RangeEntry(Years, Months) ==
    /\ pc = "range"
    /\ \E sy \in Years, sm \in Months, ey \in Years, em \in Months :
         LET err == RangeError(rng'[1], rng'[2], rng'[3], rng'[4])
         IN  /\ rng' = ParsedPrefix(<<sy, sm, ey, em>>)
             /\ IF Len(rng') < 4
                THEN /\ msg' = "Invalid input. Please enter numbers for year/month."
                     /\ UNCHANGED <<pc, dates, dates_to_query>>
                ELSE IF err # ""
                THEN /\ msg' = err
                     /\ UNCHANGED <<pc, dates, dates_to_query>>
                ELSE ReturnDates(RangeDates(rng'[1], rng'[2], rng'[3], rng'[4]))
    /\ UNCHANGED <<date_choice, selected_type, securities_to_find, i,
                   all_results, fetch_errors, calls, stderr, table>>

(* ------------------------------------------------------------------ *)
(* prompt_for_security                                                  *)
(* ------------------------------------------------------------------ *)

\* The existing_security argument: none on the first call, the first
\* security on the second (as a list of zero or one security).
existing_security ==
    IF securities_to_find = <<>> THEN <<>> ELSE <<securities_to_find[1]>>

\* The type loop.
SecurityType(Tokens) ==
    /\ pc = "sec_type"
    /\ \E type_choice_str \in Tokens :
         IF ~IsInt(type_choice_str)
         THEN /\ msg' = "Invalid input. Please enter a valid number."
              /\ UNCHANGED <<pc, selected_type>>
         ELSE LET type_choice == IntVal(type_choice_str) - 1
              IN  IF 0 <= type_choice /\ type_choice < Len(type_keys)
                  THEN /\ selected_type' = type_keys[type_choice + 1]
                       /\ pc' = "sec_desc"
                       /\ msg' = ""
                  ELSE /\ msg' = "Invalid choice. Please select a number from the list."
                       /\ UNCHANGED <<pc, selected_type>>
    /\ UNCHANGED <<date_choice, dates, rng, dates_to_query, securities_to_find,
                   i, all_results, fetch_errors, calls, stderr, table>>

\* Mutant of IsDuplicate: the check left out.
IsDuplicateNever(new_security, existing) == FALSE

\* existing_security and new_security == existing_security
IsDuplicate(new_security, existing) ==
    existing # <<>> /\ new_security = existing[1]

\* The description loop, and what run_interactive_cli does with the security
\* returned: after the first it asks whether to compare, after the second it
\* starts fetching.
SecurityDesc(Tokens) ==
    /\ pc = "sec_desc"
    /\ \E desc_choice_str \in Tokens :
         IF ~IsInt(desc_choice_str)
         THEN /\ msg' = "Invalid input. Please enter a valid number."
              /\ UNCHANGED <<pc, securities_to_find>>
         ELSE LET descriptions == SECURITY_MAP[selected_type]
                  desc_choice == IntVal(desc_choice_str) - 1
                  new_security == [type |-> selected_type,
                                   desc |-> descriptions[desc_choice + 1]]
              IN  IF ~(0 <= desc_choice /\ desc_choice < Len(descriptions))
                  THEN /\ msg' = "Invalid choice. Please select a number from the list."
                       /\ UNCHANGED <<pc, securities_to_find>>
                  ELSE IF IsDuplicate(new_security, existing_security)
                  THEN /\ msg' = "Error: Already selected. Choose different security."
                       /\ UNCHANGED <<pc, securities_to_find>>
                  ELSE /\ securities_to_find' = Append(securities_to_find, new_security)
                       /\ pc' = (IF securities_to_find = <<>> THEN "compare" ELSE "fetch")
                       /\ msg' = (IF securities_to_find = <<>> THEN ""
                                  ELSE "Fetching data, please wait...")
    /\ UNCHANGED <<date_choice, dates, rng, dates_to_query, selected_type, i,
                   all_results, fetch_errors, calls, stderr, table>>

CompareTokens == {"y", "N", "x"}

\* "Compare another security? (y/n)"
Compare ==
    /\ pc = "compare"
    /\ \E answer \in CompareTokens :
         LET compare == Lower(answer)
         IN  /\ pc' = (IF compare = "y" THEN "sec_type"
                       ELSE IF compare = "n" THEN "fetch" ELSE "compare")
             /\ msg' = (IF compare = "y" THEN "--- Security Selection ---"
                        ELSE IF compare = "n" THEN "Fetching data, please wait..."
                        ELSE "Invalid input. Please enter 'y' or 'n'.")
    /\ UNCHANGED <<date_choice, dates, rng, dates_to_query, selected_type,
                   securities_to_find, i, all_results, fetch_errors, calls,
                   stderr, table>>

(* ------------------------------------------------------------------ *)
(* The Rate Client as run_interactive_cli sees it                       *)
(* ------------------------------------------------------------------ *)

\* The records a call may return (MOCK_API_DATA of the tests): two
\* descriptions, two record dates, one description twice.
MOCK_API_DATA ==
    << [record_date |-> "2023-09-30", security_type_desc |-> "Marketable",
        security_desc |-> "Treasury Bills", rate |-> "4.187%"],
       [record_date |-> "2023-09-30", security_type_desc |-> "Marketable",
        security_desc |-> "Treasury Notes", rate |-> "3.112%"],
       [record_date |-> "2023-08-31", security_type_desc |-> "Marketable",
        security_desc |-> "Treasury Bills", rate |-> "4.000%"] >>

\* The record lists of at most n records.
RecordLists(n) == UNION {[1..k -> Range(MOCK_API_DATA)] : k \in 0..n}

\* The messages of the two errors fetch_rates_by_date raises.
ApiErrors == {"API request failed: 503 Server Error",
              "Failed to decode JSON from response."}

\* What one call of fetch_rates_by_date gives: a record list, or an error.
ApiResults(n) ==
    {[ok |-> TRUE, data |-> d, exc |-> ""] : d \in RecordLists(n)}
    \cup {[ok |-> FALSE, data |-> <<>>, exc |-> e] : e \in ApiErrors}

(* ------------------------------------------------------------------ *)
(* TreasuryAPI.fetch_rates_by_date (src/src/api.py)                     *)
(* ------------------------------------------------------------------ *)

BASE_URL == "https://api.fiscaldata.treasury.gov/services/api/fiscal_service"
ENDPOINT == "/v2/accounting/od/avg_interest_rates"

\* The URL of the GET with its two query parameters, as requests encodes it.
RequestUrl(report_date) ==
    BASE_URL \o ENDPOINT \o "?filter=record_date%3Aeq%3A" \o report_date
        \o "&sort=-record_date%2Csecurity_desc"

\* The items of a response body's "data" array: those behind MOCK_API_DATA,
\* and one whose rate is not a number.
RawItems ==
    { [record_date |-> "2023-09-30", security_type_desc |-> "Marketable",
       security_desc |-> "Treasury Bills", avg_interest_rate_amt |-> "4.187"],
      [record_date |-> "2023-09-30", security_type_desc |-> "Marketable",
       security_desc |-> "Treasury Notes", avg_interest_rate_amt |-> "3.112"],
      [record_date |-> "2023-08-31", security_type_desc |-> "Marketable",
       security_desc |-> "Treasury Bills", avg_interest_rate_amt |-> "4"],
      [record_date |-> "2023-08-31", security_type_desc |-> "Marketable",
       security_desc |-> "Treasury Notes", avg_interest_rate_amt |-> "n/a"] }

\* What response.json() meets: text that is not JSON, or an object whose
\* "data" is a list of at most n items.
Bodies(n) ==
    {[parses |-> FALSE, data |-> <<>>]}
    \cup {[parses |-> TRUE, data |-> d] : d \in UNION {[1..k -> RawItems] : k \in 0..n}}

\* What requests.get meets: an error of the transport, or a response with a
\* status, a reason and a body.
HttpOutcomes(n) ==
    {[raised |-> TRUE, cause |-> "Connection refused", status |-> 0, reason |-> "",
      body |-> [parses |-> FALSE, data |-> <<>>]]}
    \cup {[raised |-> FALSE, cause |-> "", status |-> 200, reason |-> "OK", body |-> b] :
            b \in Bodies(n)}
    \cup {[raised |-> FALSE, cause |-> "", status |-> st[1], reason |-> st[2], body |-> b] :
            st \in {<<404, "Not Found">>, <<503, "Service Unavailable">>},
            b \in Bodies(0)}

\* The position of the first "." of s, or 0.
DotAt(s) ==
    IF \E k \in 1..Len(s) : CharAt(s, k) = "."
    THEN CHOOSE k \in 1..Len(s) : CharAt(s, k) = "." /\ \A h \in 1..(k - 1) : CharAt(s, h) # "."
    ELSE 0

AllDigits(s) == \A k \in 1..Len(s) : IsDigit(CharAt(s, k))

IntPart(s) == IF DotAt(s) = 0 THEN s ELSE SubSeq(s, 1, DotAt(s) - 1)
FracPart(s) == IF DotAt(s) = 0 THEN "" ELSE SubSeq(s, DotAt(s) + 1, Len(s))

\* float(s) succeeds, for the plain decimal texts of the model: digits with
\* at most one point and at least one digit.  (Signs, exponents, inf and nan
\* are outside the inputs.)
IsFloat(s) ==
    /\ AllDigits(IntPart(s)) /\ AllDigits(FracPart(s))
    /\ IntPart(s) \o FracPart(s) # ""

\* f"{float(s):.3f}%" for a decimal text of at most three decimals, which
\* needs no rounding: the integer part without leading zeros, the decimals
\* padded to three.
FormatRate(s) ==
    LET f == FracPart(s)
    IN  NatToStr(DigitsVal(IntPart(s), 0)) \o "."
            \o f \o SubSeq("000", 1, 3 - Len(f)) \o "%"

\* One entry of formatted_data.
FormatItem(item) ==
    [record_date |-> item.record_date,
     security_type_desc |-> item.security_type_desc,
     security_desc |-> item.security_desc,
     rate |-> FormatRate(item.avg_interest_rate_amt)]

\* The exception classes of the model that are requests' RequestException
\* or a subclass of it (requests' JSONDecodeError is one).
RequestExceptions == {"RequestException", "ConnectionError", "HTTPError", "JSONDecodeError"}

\* Mutant of RaisesForStatus: raise_for_status left out.
RaisesForStatusNever(status) == FALSE

\* response.raise_for_status() raises HTTPError: a 4xx or 5xx status.
RaisesForStatus(status) == 400 <= status /\ status < 600

\* The text of the HTTPError of raise_for_status.
HttpErrorText(http, report_date) ==
    IntToStr(http.status)
        \o (IF http.status < 500 THEN " Client Error: " ELSE " Server Error: ")
        \o http.reason \o " for url: " \o RequestUrl(report_date)

\* What the try block does: it raises (cls, message) or returns a list.
TryBlock(http, report_date) ==
    IF http.raised
    THEN [ok |-> FALSE, data |-> <<>>, cls |-> "ConnectionError", exc |-> http.cause]
    ELSE IF RaisesForStatus(http.status)
    THEN [ok |-> FALSE, data |-> <<>>, cls |-> "HTTPError",
          exc |-> HttpErrorText(http, report_date)]
    ELSE IF ~http.body.parses
    THEN [ok |-> FALSE, data |-> <<>>, cls |-> "JSONDecodeError",
          exc |-> "Expecting value: line 1 column 1 (char 0)"]
    ELSE IF http.body.data = <<>>
    THEN [ok |-> TRUE, data |-> <<>>, cls |-> "", exc |-> ""]
    ELSE IF \E k \in DOMAIN http.body.data : ~IsFloat(http.body.data[k].avg_interest_rate_amt)
    THEN LET k == CHOOSE j \in DOMAIN http.body.data :
                    /\ ~IsFloat(http.body.data[j].avg_interest_rate_amt)
                    /\ \A h \in 1..(j - 1) : IsFloat(http.body.data[h].avg_interest_rate_amt)
         IN  [ok |-> FALSE, data |-> <<>>, cls |-> "ValueError",
              exc |-> "could not convert string to float: '"
                        \o http.body.data[k].avg_interest_rate_amt \o "'"]
    ELSE [ok |-> TRUE, cls |-> "", exc |-> "",
          data |-> [k \in DOMAIN http.body.data |-> FormatItem(http.body.data[k])]]

\* Mutant of ExceptClauses: the RequestException clause comes first.
ExceptClausesSwapped(t) ==
    IF t.ok THEN [ok |-> TRUE, data |-> t.data, cls |-> "", exc |-> "", cause |-> ""]
    ELSE IF t.cls \in RequestExceptions
    THEN [ok |-> FALSE, data |-> <<>>, cls |-> "RequestException",
          exc |-> "API request failed: " \o t.exc, cause |-> t.exc]
    ELSE IF t.cls = "JSONDecodeError"
    THEN [ok |-> FALSE, data |-> <<>>, cls |-> "ValueError",
          exc |-> "Failed to decode JSON from response.", cause |-> t.exc]
    ELSE [ok |-> FALSE, data |-> <<>>, cls |-> t.cls, exc |-> t.exc, cause |-> ""]

\* The two except clauses, in their order: JSONDecodeError, then
\* RequestException; any other exception goes through.  The exception raised
\* in a clause has the one it handles as its cause.
ExceptClauses(t) ==
    IF t.ok THEN [ok |-> TRUE, data |-> t.data, cls |-> "", exc |-> "", cause |-> ""]
    ELSE IF t.cls = "JSONDecodeError"
    THEN [ok |-> FALSE, data |-> <<>>, cls |-> "ValueError",
          exc |-> "Failed to decode JSON from response.", cause |-> t.exc]
    ELSE IF t.cls \in RequestExceptions
    THEN [ok |-> FALSE, data |-> <<>>, cls |-> "RequestException",
          exc |-> "API request failed: " \o t.exc, cause |-> t.exc]
    ELSE [ok |-> FALSE, data |-> <<>>, cls |-> t.cls, exc |-> t.exc, cause |-> ""]

\* fetch_rates_by_date(report_date), given what the GET meets.
fetch_rates_by_date(report_date, http) == ExceptClauses(TryBlock(http, report_date))

(* ------------------------------------------------------------------ *)
(* run_interactive_cli: fetch, filter, sort, display                    *)
(* ------------------------------------------------------------------ *)

\* Mutant of Matches: the description filter dropped.
MatchesAny(rate_data, sec) == TRUE

\* rate_data["security_desc"] == sec["desc"]
Matches(rate_data, sec) == rate_data.security_desc = sec.desc

RECURSIVE EveryMatch(_, _)
\* Mutant of FirstMatch: the inner loop without its break.
EveryMatch(rates_on_date, sec) ==
    IF rates_on_date = <<>> THEN <<>>
    ELSE (IF Matches(Head(rates_on_date), sec)
          THEN << [Record_Date |-> Head(rates_on_date).record_date,
                   Security_Type |-> sec.type,
                   Security_Description |-> Head(rates_on_date).security_desc,
                   Rate |-> Head(rates_on_date).rate] >>
          ELSE <<>>) \o EveryMatch(Tail(rates_on_date), sec)

RECURSIVE FirstMatch(_, _)
\* The inner for loop with its break: the rows (none or one) a security gets
\* from one record list.
FirstMatch(rates_on_date, sec) ==
    IF rates_on_date = <<>> THEN <<>>
    ELSE IF Matches(Head(rates_on_date), sec)
    THEN << [Record_Date |-> Head(rates_on_date).record_date,
             Security_Type |-> sec.type,
             Security_Description |-> Head(rates_on_date).security_desc,
             Rate |-> Head(rates_on_date).rate] >>
    ELSE FirstMatch(Tail(rates_on_date), sec)

RECURSIVE RowsOnDate(_, _)
\* for sec in securities_to_find
RowsOnDate(rates_on_date, secs) ==
    IF secs = <<>> THEN <<>>
    ELSE FirstMatch(rates_on_date, Head(secs)) \o RowsOnDate(rates_on_date, Tail(secs))

\* Mutant of KeyLess: the key is the record date alone.
KeyLessDateOnly(a, b) == StrLess(a.Record_Date, b.Record_Date)

\* The sort key (Record Date, Security Description), compared as tuples.
KeyLess(a, b) ==
    \/ StrLess(a.Record_Date, b.Record_Date)
    \/ /\ a.Record_Date = b.Record_Date
       /\ StrLess(a.Security_Description, b.Security_Description)

RECURSIVE Insert(_, _)
\* x goes after every row whose key is not greater (list.sort is stable).
Insert(sorted, x) ==
    IF sorted = <<>> THEN <<x>>
    ELSE IF KeyLess(x, Head(sorted)) THEN <<x>> \o sorted
    ELSE <<Head(sorted)>> \o Insert(Tail(sorted), x)

RECURSIVE SortRows(_)
\* all_results.sort(key=...)
SortRows(rows) ==
    IF rows = <<>> THEN <<>>
    ELSE Insert(SortRows(SubSeq(rows, 1, Len(rows) - 1)), rows[Len(rows)])

\* Mutant of AfterError: the try around the whole loop, an error ends it.
AfterErrorAbort(k, n) == n

\* Where the for loop goes after the except clause: on to the next date.
AfterError(k, n) == k + 1

\* Mutant of AfterEmpty: break in place of continue.
AfterEmptyBreak(k, n) == n

\* Where the for loop goes after an empty record list (continue).
AfterEmpty(k, n) == k + 1

\* Mutant of EmptyReport: the message whatever the errors.
EmptyReportAlways(errors) == "No matching data found for selected criteria and dates."

\* What is printed when no row was collected.
EmptyReport(errors) ==
    IF ~errors THEN "No matching data found for selected criteria and dates."
    ELSE ""

\* The report after the loop: the rows sorted and displayed, or the
\* no-data message.
Report(rows, errors) ==
    /\ all_results' = SortRows(rows)
    /\ table' = SortRows(rows)
    /\ msg' = (IF rows # <<>> THEN "--- Results ---" ELSE EmptyReport(errors))
    /\ pc' = "done"

\* One round of the for loop over dates_to_query, given what the call of the
\* Rate Client gave (r) and the record of the call (entry): the rows are
\* collected or the failure reported; after the last date, the report.
LoopRound(date, r, entry) ==
    LET rows == IF r.ok THEN all_results \o RowsOnDate(r.data, securities_to_find)
                ELSE all_results
        errors == fetch_errors \/ ~r.ok
        next == IF ~r.ok THEN AfterError(i, Len(dates_to_query))
                ELSE IF r.data = <<>> THEN AfterEmpty(i, Len(dates_to_query))
                ELSE i + 1
    IN  /\ calls' = Append(calls, entry)
        /\ fetch_errors' = errors
        /\ stderr' = (IF ~r.ok
                      THEN Append(stderr, "Error fetching data for " \o date \o ": " \o r.exc)
                      ELSE IF r.data = <<>>
                      THEN Append(stderr, "Info: No data found for " \o date \o ".")
                      ELSE stderr)
        /\ i' = next
        /\ IF next < Len(dates_to_query)
           THEN /\ all_results' = rows
                /\ UNCHANGED <<pc, msg, table>>
           ELSE Report(rows, errors)

\* One round of the loop with the Rate Client replaced by its results, as in
\* the tests of the program.
FetchDate(n) ==
    /\ pc = "fetch"
    /\ Len(dates_to_query) <= MaxFetch
    /\ \E r \in ApiResults(n) :
         LoopRound(dates_to_query[i + 1], r, [date |-> dates_to_query[i + 1], result |-> r])
    /\ UNCHANGED <<date_choice, dates, rng, dates_to_query, selected_type,
                   securities_to_find>>

\* One round of the loop with fetch_rates_by_date itself, on what the GET
\* meets.
FetchDateHttp(n) ==
    /\ pc = "fetch"
    /\ Len(dates_to_query) <= MaxFetch
    /\ \E http \in HttpOutcomes(n) :
         LoopRound(dates_to_query[i + 1],
                   fetch_rates_by_date(dates_to_query[i + 1], http),
                   [date |-> dates_to_query[i + 1], http |-> http,
                    result |-> fetch_rates_by_date(dates_to_query[i + 1], http)])
    /\ UNCHANGED <<date_choice, dates, rng, dates_to_query, selected_type,
                   securities_to_find>>

(* ------------------------------------------------------------------ *)
(* Specifications                                                       *)
(* ------------------------------------------------------------------ *)

\* Inputs of the full program: three months inside the bound, entries the
\* prompts reject, every kind of answer at the security prompts.
YearTokens == {"", "2020", "2023", "2026", "abc"}
MonthTokens == {"9", "10", "13", "x"}
TypeTokens == {"1", "3", "4", "x"}
DescTokens == {"0", "1", "2", "x"}

Next ==
    \/ MainMenu
    \/ PressEnter
    \/ DateMenu
    \/ SpecificEntry(YearTokens, MonthTokens)
    \/ RangeEntry(YearTokens, MonthTokens)
    \/ SecurityType(TypeTokens)
    \/ SecurityDesc(DescTokens)
    \/ Compare
    \/ FetchDate(MaxRecs)

Spec == Init /\ [][Next]_vars

\* Inputs for the date prompts: for mode 1 six months inside the bound, at
\* both of its ends and in a leap year; for mode 2 ranges inside, across and
\* outside the bound.  The Rate Client gives an empty list or an error.
WideYearTokens == {"", "2020", "2024", "2025"}
WideMonthTokens == {"02", "09", "10", "13", "x"}
RangeYearTokens == {"2019", "2020", "2023", "2025"}
RangeMonthTokens == {"08", "09", "10", "13"}
NarrowTypeTokens == {"1"}
NarrowDescTokens == {"1", "2"}

NextDates ==
    \/ MainMenu
    \/ PressEnter
    \/ DateMenu
    \/ SpecificEntry(WideYearTokens, WideMonthTokens)
    \/ RangeEntry(RangeYearTokens, RangeMonthTokens)
    \/ SecurityType(NarrowTypeTokens)
    \/ SecurityDesc(NarrowDescTokens)
    \/ Compare
    \/ FetchDate(0)

SpecDates == Init /\ [][NextDates]_vars

\* Inputs for the Rate Client itself: two months, the two first marketable
\* securities, and every outcome of the GET.
ApiYearTokens == {"", "2023"}
ApiMonthTokens == {"08", "09"}

NextApi ==
    \/ MainMenu
    \/ PressEnter
    \/ DateMenu
    \/ SpecificEntry(ApiYearTokens, ApiMonthTokens)
    \/ RangeEntry(ApiYearTokens, ApiMonthTokens)
    \/ SecurityType(NarrowTypeTokens)
    \/ SecurityDesc(NarrowDescTokens)
    \/ Compare
    \/ FetchDateHttp(MaxRecs)

SpecApi == Init /\ [][NextApi]_vars

(* ------------------------------------------------------------------ *)
(* Properties of the result assembly (under Spec)                       *)
(* ------------------------------------------------------------------ *)

RequestedDescs == {securities_to_find[k].desc : k \in DOMAIN securities_to_find}

CatalogDescs == UNION {Range(SECURITY_MAP[t]) : t \in DOMAIN SECURITY_MAP}

\* The records the Rate Client has returned for this request.
ReturnedRecords == UNION {Range(calls[k].result.data) : k \in DOMAIN calls}

\* C1: every row collected or displayed has a requested security
\* description, which is a catalog entry; a record of a description that was
\* not requested is in no row.
C1_OnlyRequestedRows ==
    \A rows \in {all_results, table} : \A k \in DOMAIN rows :
        /\ rows[k].Security_Description \in RequestedDescs
        /\ rows[k].Security_Description \in CatalogDescs

\* A table is displayed although the Rate Client returned a record of a
\* description that was not requested.
C1_Witness ==
    /\ pc = "done"
    /\ table # <<>>
    /\ \E r \in ReturnedRecords : r.security_desc \notin RequestedDescs

\* The row a security gets from a record list: that of the first record of
\* its description, stated without the loop.
IsRowOf(row, data, sec) ==
    \E j \in DOMAIN data :
        /\ data[j].security_desc = sec.desc
        /\ \A h \in 1..(j - 1) : data[h].security_desc # sec.desc
        /\ row = [Record_Date |-> data[j].record_date, Security_Type |-> sec.type,
                  Security_Description |-> data[j].security_desc, Rate |-> data[j].rate]

FailedCalls == {k \in DOMAIN calls : ~calls[k].result.ok}

\* C2: when a fetch has failed, the failure is on standard error, every date
\* of the request has still been fetched by the end, and the rows of every
\* other date are displayed.
C2_FailureSkipsOneDate ==
    (pc = "done" /\ FailedCalls # {}) =>
        /\ \A k \in FailedCalls :
             \E l \in DOMAIN stderr :
                stderr[l] = "Error fetching data for " \o calls[k].date \o ": " \o calls[k].result.exc
        /\ Len(calls) = Len(dates_to_query)
        /\ \A k \in DOMAIN dates_to_query : calls[k].date = dates_to_query[k]
        /\ \A k \in DOMAIN calls : \A s \in DOMAIN securities_to_find :
             \A j \in DOMAIN calls[k].result.data :
                LET row == [Record_Date |-> calls[k].result.data[j].record_date,
                            Security_Type |-> securities_to_find[s].type,
                            Security_Description |-> calls[k].result.data[j].security_desc,
                            Rate |-> calls[k].result.data[j].rate]
                IN  IsRowOf(row, calls[k].result.data, securities_to_find[s])
                        => row \in Range(table)

\* The second of three dates failed; the first and the third gave rows, and
\* both are displayed.
C2_Witness ==
    /\ pc = "done"
    /\ Len(calls) = 3
    /\ calls[1].result.ok /\ ~calls[2].result.ok /\ calls[3].result.ok
    /\ calls[1].result.data = <<MOCK_API_DATA[3]>>
    /\ calls[3].result.data = <<MOCK_API_DATA[1]>>
    /\ Len(table) = 2

NoDataMessage == "No matching data found for selected criteria and dates."

\* C3, as claimed: an empty combined result is always reported as "no
\* matching data".
C3_Original ==
    (pc = "done" /\ all_results = <<>>) => msg = NoDataMessage

\* C3, amended: an empty combined result is reported as "no matching data"
\* exactly when no fetch failed; when a fetch failed nothing is printed to
\* standard output, the failures are on standard error, and in both cases
\* the program goes back to the menu with no table.
C3_EmptyResultReport ==
    (pc = "done" /\ all_results = <<>>) =>
        /\ table = <<>>
        /\ ~fetch_errors => msg = NoDataMessage
        /\ fetch_errors => (msg = "" /\ FailedCalls # {} /\ Len(stderr) >= Cardinality(FailedCalls))

\* No row, one date empty and one failed: nothing is printed.
C3_Witness ==
    /\ pc = "done"
    /\ all_results = <<>>
    /\ Len(calls) = 2
    /\ calls[1].result.ok
    /\ ~calls[2].result.ok
    /\ msg = ""

\* (date, description) tuple order, not strict.
RowLeq(a, b) ==
    \/ StrLess(a.Record_Date, b.Record_Date)
    \/ /\ a.Record_Date = b.Record_Date
       /\ StrLeq(a.Security_Description, b.Security_Description)

\* C4: the displayed rows are in ascending order of record date, and of
\* security description among equal record dates.
C4_Sorted ==
    \A j \in DOMAIN table : \A k \in DOMAIN table :
        j < k => RowLeq(table[j], table[k])

\* Rows that were collected out of order: Notes before Bills on one date,
\* then an earlier record date from a later call.
C4_Witness ==
    /\ pc = "done"
    /\ Len(table) = 3
    /\ securities_to_find[1].desc = "Treasury Notes"
    /\ Len(calls) = 2
    /\ calls[1].result.data = <<MOCK_API_DATA[1], MOCK_API_DATA[2]>>
    /\ calls[2].result.data = <<MOCK_API_DATA[3]>>

\* C5: the calls made are, in order, the first dates of the list, one call
\* per date; at the end every date has been fetched exactly once.
C5_OneCallPerDate ==
    /\ Len(calls) <= Len(dates_to_query)
    /\ \A k \in DOMAIN calls : calls[k].date = dates_to_query[k]
    /\ \A j \in DOMAIN calls : \A k \in DOMAIN calls :
          j # k => calls[j].date # calls[k].date
    /\ pc = "fetch" => Len(calls) = i /\ i < Len(dates_to_query)
    /\ pc = "done" => Len(calls) = Len(dates_to_query)

\* Three dates: one call failed, one gave nothing, one gave records.
C5_Witness ==
    /\ pc = "done"
    /\ Len(calls) = 3
    /\ \E k \in 1..3 : ~calls[k].result.ok
    /\ \E k \in 1..3 : calls[k].result.ok /\ calls[k].result.data = <<>>
    /\ \E k \in 1..3 : calls[k].result.data # <<>>

(* ------------------------------------------------------------------ *)
(* Properties of the date and security prompts                          *)
(* ------------------------------------------------------------------ *)

\* A calendar stated apart from the program's: months counted from year 0,
\* the texts of years and of two-digit numbers, the month lengths.
MonthIndex(year, month) == 12 * year + (month - 1)

BoundLo == MonthIndex(2020, 10)
BoundHi == MonthIndex(2025, 9)

TwoDigitText ==
    <<"01", "02", "03", "04", "05", "06", "07", "08", "09", "10", "11", "12",
      "13", "14", "15", "16", "17", "18", "19", "20", "21", "22", "23", "24",
      "25", "26", "27", "28", "29", "30", "31">>

YearText == [y \in 2020..2025 |->
                CASE y = 2020 -> "2020" [] y = 2021 -> "2021" [] y = 2022 -> "2022"
                  [] y = 2023 -> "2023" [] y = 2024 -> "2024" [] y = 2025 -> "2025"]

LastDay(year, month) ==
    IF month \in {4, 6, 9, 11} THEN 30
    ELSE IF month # 2 THEN 31
    ELSE IF year \in {2020, 2024} THEN 29 ELSE 28

MonthEndText(ix) ==
    LET year == ix \div 12
        month == (ix % 12) + 1
    IN  YearText[year] \o "-" \o TwoDigitText[month] \o "-" \o TwoDigitText[LastDay(year, month)]

Max(a, b) == IF a >= b THEN a ELSE b
Min(a, b) == IF a <= b THEN a ELSE b

\* The month-end dates of the months from start to end that lie in the bound.
MonthEndsInBound(start_ix, end_ix) ==
    LET lo == Max(start_ix, BoundLo)
        hi == Min(end_ix, BoundHi)
    IN  [k \in 1..(hi - lo + 1) |-> MonthEndText(lo + k - 1)]

StrictlyAscending(ds) ==
    \A j \in DOMAIN ds : \A k \in DOMAIN ds : j < k => StrLess(ds[j], ds[k])

\* A range was read in full.
RangeRead == date_choice = "2" /\ Len(rng) = 4

\* prompt_for_dates has returned the dates of a range.
RangeAccepted == RangeRead /\ dates_to_query # <<>>

StartIx == MonthIndex(rng[1], rng[2])
EndIx == MonthIndex(rng[3], rng[4])

\* C6: the dates returned for an accepted range are the month-end dates of
\* the months from start to end that lie in [2020-10, 2025-09], each once,
\* strictly ascending; 2023-08 to 2023-09 gives 2023-08-31 and 2023-09-30.
C6_RangeEnumeration ==
    RangeAccepted =>
        /\ StartIx <= EndIx
        /\ dates_to_query = MonthEndsInBound(StartIx, EndIx)
        /\ StrictlyAscending(dates_to_query)
        /\ rng = <<2023, 8, 2023, 9>> => dates_to_query = <<"2023-08-31", "2023-09-30">>

\* The range over several years from 2023-08 to the end of the bound, with
\* the leap day of 2024 in it.
C6_Witness ==
    /\ RangeAccepted
    /\ rng = <<2023, 8, 2025, 9>>
    /\ Len(dates_to_query) = 26
    /\ dates_to_query[7] = "2024-02-29"

\* Both endpoints are year-months with a month from 1 to 12.
WellFormed == rng[2] \in 1..12 /\ rng[4] \in 1..12

\* The range has a month outside the bound, and one inside it.
ExtendsOutside == StartIx < BoundLo \/ EndIx > BoundHi
MeetsBound == StartIx <= BoundHi /\ EndIx >= BoundLo

RangeRejections ==
    {"Invalid input. Ensure years 2020-2025, months 01-12.",
     "Error: Start date out of allowed range (min 2020-10).",
     "Error: End date out of allowed range (max 2025-09)."}

\* C7, as claimed: a well-formed, ordered range that extends outside the
\* bound and has a month inside it is accepted, and its months inside the
\* bound are returned.
C7_Original ==
    (RangeRead /\ WellFormed /\ StartIx <= EndIx /\ ExtendsOutside /\ MeetsBound) =>
        /\ dates_to_query # <<>>
        /\ dates_to_query = MonthEndsInBound(StartIx, EndIx)

\* What the code does in place of C7: a well-formed, ordered range that
\* extends outside the bound is rejected with an error and the range is
\* asked again, with no date list and no Rate Client call; an accepted range
\* lies inside the bound, so no month of it is skipped and its list is never
\* empty.
C7_OutOfBoundRejected ==
    /\ (RangeRead /\ WellFormed /\ StartIx <= EndIx /\ ExtendsOutside) =>
          /\ pc = "range"
          /\ msg \in RangeRejections
          /\ dates_to_query = <<>>
          /\ calls = <<>>
    /\ RangeAccepted =>
          /\ BoundLo <= StartIx /\ EndIx <= BoundHi
          /\ Len(dates_to_query) = EndIx - StartIx + 1
    /\ (date_choice = "2" /\ pc \notin {"range", "menu"}) => dates_to_query # <<>>

\* 2020-08 to 2020-10 reaches into the bound and is rejected.
C7_Witness ==
    /\ pc = "range"
    /\ rng = <<2020, 8, 2020, 10>>
    /\ msg = "Error: Start date out of allowed range (min 2020-10)."
    /\ dates_to_query = <<>>

StartAfterEnd == StartIx > EndIx

\* C8: a range whose start or end has no month from 1 to 12, or whose start
\* is after its end, or of which an endpoint is not a number, is rejected
\* with an error: the range is asked again, no date list is produced and no
\* Rate Client call is made.
C8_InvalidRangeRejected ==
    /\ (RangeRead /\ (~WellFormed \/ StartAfterEnd)) =>
          /\ pc = "range"
          /\ msg \in {"Invalid input. Ensure years 2020-2025, months 01-12.",
                      "Error: End date cannot be before start date."}
          /\ dates_to_query = <<>>
          /\ calls = <<>>
    /\ (RangeRead /\ ~WellFormed) =>
          msg = "Invalid input. Ensure years 2020-2025, months 01-12."
    /\ (date_choice = "2" /\ Len(rng) \in 1..3) =>
          /\ pc = "range"
          /\ msg = "Invalid input. Please enter numbers for year/month."
          /\ dates_to_query = <<>>
          /\ calls = <<>>

\* 2023-10 to 2023-09 is rejected as out of order.
C8_Witness ==
    /\ pc = "range"
    /\ rng = <<2023, 10, 2023, 9>>
    /\ msg = "Error: End date cannot be before start date."
    /\ dates_to_query = <<>>

DuplicateMessage == "Error: Already selected. Choose different security."

\* C9: the second security is never the first one again; the duplicate is
\* rejected at the prompt, before any Rate Client call, and wherever
\* fetching has started the requested securities are pairwise distinct.
C9_DistinctSecurities ==
    /\ msg = DuplicateMessage =>
          /\ pc = "sec_desc"
          /\ Len(securities_to_find) = 1
          /\ calls = <<>>
    /\ Len(securities_to_find) <= 2
    /\ \A j \in DOMAIN securities_to_find : \A k \in DOMAIN securities_to_find :
          j # k => /\ securities_to_find[j] # securities_to_find[k]
                   /\ securities_to_find[j].desc # securities_to_find[k].desc
    /\ pc \in {"fetch", "done"} => Len(securities_to_find) >= 1

\* The first security was chosen again and rejected.
C9_Witness ==
    /\ msg = DuplicateMessage
    /\ pc = "sec_desc"
    /\ securities_to_find = <<[type |-> "Marketable", desc |-> "Treasury Bills"]>>
    /\ selected_type = "Marketable"

\* What the code does in place of C10: in mode 1 at most five dates are ever
\* held, returned and fetched.
C10_AtMostFiveDates ==
    date_choice = "1" =>
        /\ Len(dates) < 5
        /\ Len(dates_to_query) <= 5
        /\ Len(calls) <= 5
        /\ pc \in {"fetch", "done"} => Len(dates_to_query) \in 1..5

\* The mode 1 prompt ended by itself: it returned five distinct dates (it
\* asks for a date only while it holds fewer than five, and a list ended by
\* the user has at most four).  A request for six distinct dates ends so: the
\* sixth is never read.
CutAtFive == date_choice = "1" /\ Len(dates_to_query) = 5

\* C10, as claimed: in mode 1 a request for more than five dates never leads
\* to a fetch.  The list handed to the fetch loop has at most five entries,
\* and a session of which the prompt was cut at the fifth date, as that of a
\* request for six distinct dates is, makes no call of the Rate Client.
C10_Original ==
    date_choice = "1" =>
        /\ Len(dates_to_query) <= 5
        /\ CutAtFive => calls = <<>>

\* Five dates were entered in mode 1 and all five were fetched.
C10_Witness ==
    /\ date_choice = "1"
    /\ pc = "done"
    /\ Len(dates_to_query) = 5
    /\ Len(calls) = 5

(* ------------------------------------------------------------------ *)
(* Properties of the Rate Client (under SpecApi)                        *)
(* ------------------------------------------------------------------ *)

\* The GET failed at the transport or at the HTTP level.
GetFailed(http) == http.raised \/ (400 <= http.status /\ http.status < 600)

\* The error the GET failed with.
UnderlyingCause(c) ==
    IF c.http.raised THEN c.http.cause ELSE HttpErrorText(c.http, c.date)

\* C11: whenever the GET fails at the transport or HTTP level (an error of
\* the network, or a 4xx/5xx status found by raise_for_status), the call
\* fails with a RequestException whose message is "API request failed: "
\* followed by the cause, which it carries; it returns no record list.
C11_RequestFailure ==
    \A k \in DOMAIN calls :
        GetFailed(calls[k].http) =>
            /\ ~calls[k].result.ok
            /\ calls[k].result.data = <<>>
            /\ calls[k].result.cls = "RequestException"
            /\ calls[k].result.cause = UnderlyingCause(calls[k])
            /\ calls[k].result.exc = "API request failed: " \o UnderlyingCause(calls[k])

\* Both kinds of failure have happened: an error of the network, and a 404
\* whose body would parse; each was reported on the error stream.
C11_Witness ==
    /\ \E k \in DOMAIN calls : calls[k].http.raised
    /\ \E k \in DOMAIN calls :
          /\ calls[k].http.status = 404
          /\ calls[k].http.body.parses
          /\ calls[k].result.cls = "RequestException"
    /\ \E k \in DOMAIN stderr :
          stderr[k] = "Error fetching data for 2023-08-31: API request failed: Connection refused"

\* The response has a 2xx status and a body that is not JSON.
UnparsableSuccess(http) ==
    /\ ~http.raised
    /\ 200 <= http.status /\ http.status < 300
    /\ ~http.body.parses

\* C12: whenever the response has a 2xx status and its body cannot be parsed,
\* the call fails with ValueError "Failed to decode JSON from response.":
\* not with a RequestException, and not by returning an empty list.
C12_MalformedResponse ==
    \A k \in DOMAIN calls :
        UnparsableSuccess(calls[k].http) =>
            /\ ~calls[k].result.ok
            /\ calls[k].result.cls = "ValueError"
            /\ calls[k].result.cls \notin RequestExceptions
            /\ calls[k].result.exc = "Failed to decode JSON from response."

\* A 200 response with an unparsable body has been met, and its error
\* reported for the date.
C12_Witness ==
    /\ \E k \in DOMAIN calls :
          /\ UnparsableSuccess(calls[k].http)
          /\ calls[k].date = "2023-09-30"
          /\ ~calls[k].result.ok
    /\ \E k \in DOMAIN stderr :
          stderr[k] = "Error fetching data for 2023-09-30: Failed to decode JSON from response."

(* ------------------------------------------------------------------ *)
(* Properties of the security selection, continued (under Spec)         *)
(* ------------------------------------------------------------------ *)

\* The description loop can return for a type: one of the type's
\* descriptions is accepted against the security chosen first.
Returnable(type) ==
    \E k \in DOMAIN SECURITY_MAP[type] :
        ~IsDuplicate([type |-> type, desc |-> SECURITY_MAP[type][k]], existing_security)

\* C13: in the selection of the second security, from every state of the
\* prompt some sequence of inputs makes it return a security different from
\* the first.  The description loop never goes back to the type loop, so
\* from the description loop this says that a description of the selected
\* type is accepted, and from the type loop that a type with such a
\* description exists.
C13_CanAlwaysComplete ==
    securities_to_find # <<>> =>
        /\ pc = "sec_type" => \E k \in DOMAIN type_keys : Returnable(type_keys[k])
        /\ pc = "sec_desc" => Returnable(selected_type)

\* The trap: the first security is the only description of its type, the
\* same type was chosen again, and its one description has been refused.
C13_Trapped ==
    /\ pc = "sec_desc"
    /\ securities_to_find
         = <<[type |-> "Interest-bearing Debt", desc |-> "Total Interest-bearing Debt"]>>
    /\ selected_type = "Interest-bearing Debt"
    /\ msg = "Error: Already selected. Choose different security."

(* ------------------------------------------------------------------ *)
(* Properties of the specific-dates prompt, continued (under SpecDates) *)
(* ------------------------------------------------------------------ *)

\* The month-end dates of the months from 2020-10 to 2025-09.
MonthEndsOfBound == {MonthEndText(ix) : ix \in BoundLo..BoundHi}

\* What the mode 1 loop prints when it refuses an entry.
SpecificRejections ==
    { "Invalid input. Year must be between 2020 and 2025.",
      "Invalid input. For 2020, earliest month is 10.",
      "Invalid input. For 2025, latest month is 9.",
      "Invalid input. Month must be between 01 and 12.",
      "Error: Dates must be in chronological order.",
      "Invalid input. Please enter numbers for year/month." }

\* The list returned in mode 1 is strictly ascending, of at most five
\* entries, each the month-end of a month of the bound; the entries held in
\* the loop are such month-ends too.
ReturnedSpecificDates ==
    date_choice = "1" =>
        /\ StrictlyAscending(dates_to_query)
        /\ Len(dates_to_query) <= 5
        /\ Range(dates_to_query) \subseteq MonthEndsOfBound
        /\ Range(dates) \subseteq MonthEndsOfBound

\* A refused entry leaves the loop where it was, with the dates it held.
RejectedEntryKeepsDates ==
    (pc = "specific" /\ msg' \in SpecificRejections) =>
        (pc' = "specific" /\ dates' = dates /\ dates_to_query' = dates_to_query)

\* C14: whatever is entered in mode 1 (valid, out of range, non-numeric, out
\* of order or repeated), the list returned is strictly ascending without
\* duplicates, has at most 5 entries, and each entry is the month-end date of
\* a month 1..12 within [2020-10, 2025-09]; a rejected entry never changes
\* the dates accepted so far.
C14_SpecificDates ==
    /\ []ReturnedSpecificDates
    /\ [][RejectedEntryKeepsDates]_vars

\* Four entries are held, one of them repeated, and a non-numeric entry has
\* just been refused.
C14_Witness ==
    /\ pc = "specific"
    /\ dates = <<"2020-10-31", "2024-02-29", "2024-02-29", "2025-09-30">>
    /\ msg = "Invalid input. Please enter numbers for year/month."

(* ------------------------------------------------------------------ *)
(* Properties of the result assembly, continued (under Spec)            *)
(* ------------------------------------------------------------------ *)

\* The rows of a description in a list of rows.
RowsOf(rows, desc) == {k \in DOMAIN rows : rows[k].Security_Description = desc}

\* The calls of the request that returned a record of a description.
CallsWith(desc) ==
    {k \in DOMAIN calls :
        /\ calls[k].result.ok
        /\ \E j \in DOMAIN calls[k].result.data :
              calls[k].result.data[j].security_desc = desc}

\* C15: the rows hold at most one row per queried date and requested
\* security, however many records of the security's description a response
\* holds: a security has as many rows as there were calls returning its
\* description, and the rows number at most dates times securities.
C15_OneRowPerDateAndSecurity ==
    \A rows \in {all_results, table} :
        /\ \A s \in DOMAIN securities_to_find :
              Cardinality(RowsOf(rows, securities_to_find[s].desc))
                  <= Cardinality(CallsWith(securities_to_find[s].desc))
        /\ Len(rows) <= Len(calls) * Len(securities_to_find)
        /\ Len(rows) <= Len(dates_to_query) * Len(securities_to_find)

\* The one response held two records of the one requested description, and
\* the table has one row: that of the first.
C15_Witness ==
    /\ pc = "done"
    /\ Len(calls) = 1
    /\ calls[1].result.data = <<MOCK_API_DATA[3], MOCK_API_DATA[1]>>
    /\ securities_to_find = <<[type |-> "Marketable", desc |-> "Treasury Bills"]>>
    /\ table = << [Record_Date |-> "2023-08-31", Security_Type |-> "Marketable",
                   Security_Description |-> "Treasury Bills", Rate |-> "4.000%"] >>

====
